---- MODULE Spec2Model ----
(***************************************************************************)
(* Model of the shortest-path harness of the Pathfinding Algorithm         *)
(* Visualizer (src/app.py): run_algorithm, compare_all_algorithms and the  *)
(* "Find Path" handler that consumes their results.                        *)
(*                                                                         *)
(* The graph is a networkx MultiDiGraph.  Nodes are integers (in the       *)
(* four-node scenario of the specification A=1, B=2, C=3, D=4); adj maps    *)
(* an ordered node pair that is joined by at least one edge to the         *)
(* sequence of the 'length' attributes of its parallel edges, position 1   *)
(* being networkx edge key 0, position 2 key 1, and so on.  The node 0 is  *)
(* never a node of a graph: it is the node key a caller passes that the    *)
(* graph does not hold.                                                    *)
(*                                                                         *)
(* The searches are calls into networkx.  Each is modelled by the          *)
(* algorithm the call runs (frontier search, A* with the default zero      *)
(* heuristic, level-order search, edge relaxation) and by the exceptions   *)
(* the call documents (NodeNotFound, NetworkXNoPath, NetworkXUnbounded).   *)
(***************************************************************************)
EXTENDS Integers, Sequences, FiniteSets, TLC

VARIABLES
    G,            \* the loaded graph (st.session_state["G"]), read-only
    start_node,   \* the start node key handed to the handler
    end_node,     \* the destination node key
    pc,           \* position of the Find Path handler
    ret,          \* outcome of the run_algorithm call of the single-algorithm mode
    results,      \* the list compare_all_algorithms returned
    warnings,     \* the st.warning calls of compare_all_algorithms, in order
    shown         \* what the handler displayed (metrics, fastest, shortest, error)

vars == <<G, start_node, end_node, pc, ret, results, warnings, shown>>

----------------------------------------------------------------------------
(* Bounds of the model *)

\* Largest number of edges of a generated graph.
MaxEdges == 3

\* Nodes of the generated graphs.
FamilyNodes == {1, 2, 3}
\* Edge lengths of the generated road graphs (non-negative by construction):
\* with 0 and 2 a detour can be shorter than, as long as, or longer than a
\* direct edge.
RoadLengths == {0, 2}
\* Edge lengths of the generated graphs with arbitrary weights.
AnyLengths == {-1, 1}
\* The elapsed times (in clock ticks) a run_algorithm call may measure: two
\* values order any two runs either way or tie them.
Times == {1, 2}
\* The node key that no graph holds.
AbsentNodes == {0}

----------------------------------------------------------------------------
(* Graph model *)

Range(f) == {f[x] : x \in DOMAIN f}

RECURSIVE SumSeq(_)
SumSeq(sq) == IF sq = <<>> THEN 0 ELSE Head(sq) + SumSeq(Tail(sq))

MinOf(S) == CHOOSE x \in S : \A y \in S : x <= y

\* u in G and v in G[u]
HasEdge(g, u, v) == <<u, v>> \in DOMAIN g.adj

\* G[u]: the successors of u
Succ(g, u) == {v \in g.nodes : HasEdge(g, u, v)}

\* networkx's weight function of a multigraph for weight="length":
\* the minimum 'length' among the parallel edges u -> v.
weight(g, u, v) == MinOf(Range(g.adj[<<u, v>>]))

\* G[u][v][0].get('length', 0): the length of the parallel edge with key 0.
edge0_length(g, u, v) == g.adj[<<u, v>>][1]

\* nx.is_path(G, path)
is_path(g, path) ==
    /\ \A i \in 1..Len(path) : path[i] \in g.nodes
    /\ \A i \in 1..(Len(path) - 1) : HasEdge(g, path[i], path[i + 1])

\* nx.path_weight(G, path, weight="length") on a path of G
path_weight(g, path) ==
    SumSeq([i \in 1..(Len(path) - 1) |-> weight(g, path[i], path[i + 1])])

\* the hop count of the path instead of its length
bfs_path_hops(g, path) == Len(path) - 1

\* sum(G[path[i]][path[i+1]][0].get('length', 0) for i in range(len(path)-1))
bfs_path_length(g, path) ==
    SumSeq([i \in 1..(Len(path) - 1) |-> edge0_length(g, path[i], path[i + 1])])

----------------------------------------------------------------------------
(* Outcomes of a call *)

Returned(p) == [kind |-> "return", exc |-> "", path |-> p]
Raised(e) == [kind |-> "raise", exc |-> e, path |-> <<>>]
Hangs == [kind |-> "hang", exc |-> "", path |-> <<>>]

\* reconstruct the path source .. v by following predecessors
RECURSIVE build_path(_, _, _)
build_path(pred, source, v) ==
    IF v = source THEN <<source>>
    ELSE Append(build_path(pred, source, pred[v]), v)

----------------------------------------------------------------------------
(* Inputs on which a search is defined *)

\* every edge length is non-negative (the precondition of Dijkstra and A*)
NonNegative(g) == \A e \in DOMAIN g.adj : \A i \in 1..Len(g.adj[e]) : g.adj[e][i] >= 0

\* the simple paths that extend the simple path p to t
RECURSIVE PathsFrom(_, _, _)
PathsFrom(g, p, t) ==
    IF p[Len(p)] = t THEN {p}
    ELSE UNION {PathsFrom(g, Append(p, v), t) : v \in Succ(g, p[Len(p)]) \ Range(p)}

\* the simple paths from s to t
SimplePaths(g, s, t) == IF s \in g.nodes THEN PathsFrom(g, <<s>>, t) ELSE {}

\* the simple cycles through c, written as closed walks c .. c
CyclesAt(g, c) ==
    {Append(p, c) : p \in {q \in UNION {SimplePaths(g, c, v) : v \in g.nodes \ {c}} :
                               HasEdge(g, q[Len(q)], c)}}

\* a cycle of negative total length can be reached from s
NegativeCycleReachable(g, s) ==
    \E c \in g.nodes :
        /\ SimplePaths(g, s, c) # {}
        /\ \E cyc \in CyclesAt(g, c) : path_weight(g, cyc) < 0

----------------------------------------------------------------------------
(* Dijkstra: the frontier search behind                                    *)
(* nx.shortest_path(..., weight="length", method="dijkstra").  networkx    *)
(* may grow a second frontier from the target; the path it returns has the *)
(* same, minimum, length.  Ties are broken by the smaller node key.        *)

\* relax the edges out of the node v that was just finalised
dijkstra_relax(g, v, st) ==
    LET better(u) == /\ HasEdge(g, v, u)
                     /\ u \notin st.final
                     /\ (u \notin st.seen \/ st.d[v] + weight(g, v, u) < st.d[u])
    IN [final |-> st.final,
        seen  |-> st.seen \cup {u \in g.nodes : better(u)},
        d     |-> [u \in g.nodes |-> IF better(u) THEN st.d[v] + weight(g, v, u) ELSE st.d[u]],
        pred  |-> [u \in g.nodes |-> IF better(u) THEN v ELSE st.pred[u]]]

\* pop the frontier node of least distance until the target is popped or
\* the frontier is empty
RECURSIVE dijkstra_loop(_, _, _)
dijkstra_loop(g, target, st) ==
    LET fringe == st.seen \ st.final
    IN IF fringe = {} THEN st
       ELSE LET v == CHOOSE x \in fringe : \A y \in fringe :
                        st.d[x] < st.d[y] \/ (st.d[x] = st.d[y] /\ x <= y)
                st1 == [st EXCEPT !.final = @ \cup {v}]
            IN IF v = target THEN st1
               ELSE dijkstra_loop(g, target, dijkstra_relax(g, v, st1))

dijkstra_search(g, source, target) ==
    LET st == dijkstra_loop(g, target,
                  [final |-> {}, seen |-> {source},
                   d |-> [u \in g.nodes |-> 0], pred |-> [u \in g.nodes |-> 0]])
    IN IF target \in st.final THEN Returned(build_path(st.pred, source, target))
       ELSE Raised("NetworkXNoPath")

----------------------------------------------------------------------------
(* A*: nx.astar_path(G, source, target, weight="length"), heuristic=None,  *)
(* so the estimate of every node is 0 and the priority is the distance.   *)

\* the queue entries pushed while expanding `e`
astar_pushes(g, e, st) ==
    {[prio |-> e.dist + weight(g, e.node, nb), cnt |-> st.c + nb, node |-> nb,
      dist |-> e.dist + weight(g, e.node, nb), parent |-> e.node] :
        nb \in {n \in Succ(g, e.node) :
                   ~(n \in st.enq /\ st.enqueued[n] <= e.dist + weight(g, e.node, n))}}

RECURSIVE astar_back(_, _)
astar_back(explored, node) ==
    IF node = 0 THEN <<>> ELSE Append(astar_back(explored, explored[node]), node)

RECURSIVE astar_loop(_, _, _)
astar_loop(g, target, st) ==
    IF st.queue = {} THEN Raised("NetworkXNoPath")
    ELSE LET e == CHOOSE x \in st.queue : \A y \in st.queue :
                      x.prio < y.prio \/ (x.prio = y.prio /\ x.cnt <= y.cnt)
             q1 == st.queue \ {e}
         IN IF e.node = target
            THEN Returned(Append(astar_back(st.explored, e.parent), target))
            ELSE IF e.node \in st.expl
                    /\ (st.explored[e.node] = 0 \/ st.enqueued[e.node] < e.dist)
            THEN astar_loop(g, target, [st EXCEPT !.queue = q1])
            ELSE LET pushes == astar_pushes(g, e, st)
                 IN astar_loop(g, target,
                      [queue    |-> q1 \cup pushes,
                       c        |-> st.c + Cardinality(g.nodes) + 1,
                       enq      |-> st.enq \cup {x.node : x \in pushes},
                       enqueued |-> [n \in g.nodes |->
                                       IF \E x \in pushes : x.node = n
                                       THEN (CHOOSE x \in pushes : x.node = n).dist
                                       ELSE st.enqueued[n]],
                       expl     |-> st.expl \cup {e.node},
                       explored |-> [st.explored EXCEPT ![e.node] = e.parent]])

astar_search(g, source, target) ==
    astar_loop(g, target,
        [queue |-> {[prio |-> 0, cnt |-> 0, node |-> source, dist |-> 0, parent |-> 0]},
         c |-> 1, enq |-> {}, enqueued |-> [n \in g.nodes |-> 0],
         expl |-> {}, explored |-> [n \in g.nodes |-> 0]])

----------------------------------------------------------------------------
(* BFS: nx.shortest_path(G, source, target, weight=None), the level-order  *)
(* search that counts edges.                                               *)

RECURSIVE bfs_levels(_, _, _, _, _)
bfs_levels(g, target, frontier, seen, pred) ==
    LET next == {v \in g.nodes \ seen : \E u \in frontier : HasEdge(g, u, v)}
    IN IF target \in seen \/ next = {} THEN [seen |-> seen, pred |-> pred]
       ELSE bfs_levels(g, target, next, seen \cup next,
                [v \in g.nodes |-> IF v \in next
                                   THEN MinOf({u \in frontier : HasEdge(g, u, v)})
                                   ELSE pred[v]])

bfs_search(g, source, target) ==
    LET st == bfs_levels(g, target, {source}, {source}, [v \in g.nodes |-> 0])
    IN IF target \in st.seen THEN Returned(build_path(st.pred, source, target))
       ELSE Raised("NetworkXNoPath")

----------------------------------------------------------------------------
(* Bellman-Ford: nx.shortest_path(..., weight="length",                    *)
(* method="bellman-ford"): relaxation passes over all edges, a further     *)
(* improving pass meaning a negative cycle reachable from the source.      *)

\* one relaxation pass over all edges
bf_pass(g, st) ==
    LET cands(v) == {u \in st.seen : HasEdge(g, u, v)}
        best(v) == MinOf({st.d[u] + weight(g, u, v) : u \in cands(v)})
        improves(v) == cands(v) # {} /\ (v \notin st.seen \/ best(v) < st.d[v])
    IN [seen |-> st.seen \cup {v \in g.nodes : improves(v)},
        d    |-> [v \in g.nodes |-> IF improves(v) THEN best(v) ELSE st.d[v]],
        pred |-> [v \in g.nodes |->
                    IF improves(v)
                    THEN MinOf({u \in cands(v) : st.d[u] + weight(g, u, v) = best(v)})
                    ELSE st.pred[v]]]

RECURSIVE bf_passes(_, _, _)
bf_passes(g, st, n) == IF n = 0 THEN st ELSE bf_passes(g, bf_pass(g, st), n - 1)

bellman_ford_search(g, source, target) ==
    LET st == bf_passes(g,
                  [seen |-> {source}, d |-> [v \in g.nodes |-> 0],
                   pred |-> [v \in g.nodes |-> 0]],
                  Cardinality(g.nodes) - 1)
        again == bf_pass(g, st)
    IN IF again.d # st.d \/ again.seen # st.seen THEN Raised("NetworkXUnbounded")
       ELSE IF target \in st.seen THEN Returned(build_path(st.pred, source, target))
       ELSE Raised("NetworkXNoPath")

----------------------------------------------------------------------------
(* The networkx calls of run_algorithm, with the exceptions they raise.    *)
(* Each yields the set of outcomes the call can have.  On a graph with a   *)
(* negative edge length Dijkstra and A* are outside their precondition:    *)
(* the call may return any path to the target or fail, and A* may never    *)
(* return while a negative cycle keeps lowering the cost of queued nodes.  *)

undefined_outcomes(g, source, target) ==
    LET paths == SimplePaths(g, source, target)
    IN IF paths = {} THEN {Raised("NetworkXNoPath")} ELSE {Returned(p) : p \in paths}

\* nx.shortest_path(G, start_node, end_node, weight="length", method="dijkstra")
dijkstra_path(g, source, target) ==
    IF source \notin g.nodes \/ target \notin g.nodes THEN {Raised("NodeNotFound")}
    ELSE IF source = target THEN {Returned(<<source>>)}
    ELSE IF NonNegative(g) THEN {dijkstra_search(g, source, target)}
    ELSE undefined_outcomes(g, source, target) \cup {Raised("ValueError")}

\* nx.shortest_path(G, start_node, end_node, weight=None)
bfs_path(g, source, target) ==
    IF source \notin g.nodes \/ target \notin g.nodes THEN {Raised("NodeNotFound")}
    ELSE IF source = target THEN {Returned(<<source>>)}
    ELSE {bfs_search(g, source, target)}

\* a call that leaves out weight="length": networkx then counts every edge
\* as 1 and the search is by hops
astar_path_unit_weight(g, source, target) == bfs_path(g, source, target)

\* nx.astar_path(G, start_node, end_node, weight="length")
astar_path(g, source, target) ==
    IF source \notin g.nodes \/ target \notin g.nodes THEN {Raised("NodeNotFound")}
    ELSE IF source = target \/ NonNegative(g) THEN {astar_search(g, source, target)}
    ELSE undefined_outcomes(g, source, target)
            \cup (IF NegativeCycleReachable(g, source) THEN {Hangs} ELSE {})

\* a wrapper that turns the negative-cycle error into the no-path error
bellman_ford_path_as_no_path(g, source, target) ==
    IF source \notin g.nodes THEN {Raised("NodeNotFound")}
    ELSE IF source = target THEN {Returned(<<source>>)}
    ELSE {IF bellman_ford_search(g, source, target).exc = "NetworkXUnbounded"
          THEN Raised("NetworkXNoPath")
          ELSE bellman_ford_search(g, source, target)}

\* nx.shortest_path(G, start_node, end_node, weight="length", method="bellman-ford")
bellman_ford_path(g, source, target) ==
    IF source \notin g.nodes THEN {Raised("NodeNotFound")}
    ELSE IF source = target THEN {Returned(<<source>>)}
    ELSE IF target \notin g.nodes
    THEN {IF bellman_ford_search(g, source, source).exc = "NetworkXUnbounded"
          THEN Raised("NetworkXUnbounded") ELSE Raised("NetworkXNoPath")}
    ELSE {bellman_ford_search(g, source, target)}

----------------------------------------------------------------------------
(* run_algorithm *)

\* the list `algorithms` of compare_all_algorithms
Algorithms == <<"Dijkstra", "A*", "BFS", "Bellman-Ford">>

\* the algorithm names a caller may pass: the four known ones and another
AlgorithmNames == Range(Algorithms) \cup {"DFS"}

\* the if/elif chain that selects the search
select_search(g, source, target, algorithm) ==
    CASE algorithm = "Dijkstra" -> dijkstra_path(g, source, target)
      [] algorithm = "A*" -> astar_path(g, source, target)
      [] algorithm = "BFS" -> bfs_path(g, source, target)
      [] algorithm = "Bellman-Ford" -> bellman_ford_path(g, source, target)

\* the number of nodes of the path instead of its length
path_length_nodes(g, algorithm, path) == Len(path)

\* "Calculate path length"
path_length_of(g, algorithm, path) ==
    IF algorithm = "BFS" THEN bfs_path_length(g, path) ELSE path_weight(g, path)

\* what run_algorithm does with the outcome of the search it selected
finish_run(g, algorithm, o) ==
    IF o.kind = "return"
    THEN IF algorithm # "BFS" /\ ~is_path(g, o.path)
         THEN [kind |-> "raise", exc |-> "NetworkXNoPath", path |-> <<>>,
               path_length |-> 0, searched |-> TRUE]
         ELSE [kind |-> "return", exc |-> "", path |-> o.path,
               path_length |-> path_length_of(g, algorithm, o.path), searched |-> TRUE]
    ELSE [kind |-> o.kind, exc |-> o.exc, path |-> <<>>, path_length |-> 0,
          searched |-> TRUE]

\* an if/elif chain whose else branch falls back to Dijkstra
run_algorithm_default(g, source, target, algorithm) ==
    LET name == IF algorithm \in Range(Algorithms) THEN algorithm ELSE "Dijkstra"
    IN {finish_run(g, name, o) : o \in select_search(g, source, target, name)}

\* run_algorithm(G, start_node, end_node, algorithm): its possible outcomes
run_algorithm(g, source, target, algorithm) ==
    IF algorithm \in Range(Algorithms)
    THEN {finish_run(g, algorithm, o) : o \in select_search(g, source, target, algorithm)}
    ELSE {[kind |-> "raise", exc |-> "ValueError", path |-> <<>>, path_length |-> 0,
           searched |-> FALSE]}

\* the call as the caller sees it: the algorithm asked for, the outcome and
\* the measured exec_time
CallRecord(algorithm, o, time) ==
    [algorithm |-> algorithm, kind |-> o.kind, exc |-> o.exc, path |-> o.path,
     path_length |-> o.path_length, searched |-> o.searched,
     exec_time |-> IF o.kind = "return" THEN time ELSE 0]

NoCall ==
    [algorithm |-> "", kind |-> "none", exc |-> "", path |-> <<>>, path_length |-> 0,
     searched |-> FALSE, exec_time |-> 0]

----------------------------------------------------------------------------
(* compare_all_algorithms *)

\* an append that is not skipped when run_algorithm raised
append_result_always(res, algorithm, o, time) ==
    Append(res, [Algorithm |-> algorithm, Distance |-> o.path_length,
                 Time |-> time, Nodes |-> Len(o.path), Path |-> o.path])

\* results.append({...}) of the try block
append_result(res, algorithm, o, time) ==
    IF o.kind = "return"
    THEN Append(res, [Algorithm |-> algorithm, Distance |-> o.path_length,
                      Time |-> time, Nodes |-> Len(o.path), Path |-> o.path])
    ELSE res

\* except Exception as e: st.warning(...)
append_warning(warn, algorithm, o) ==
    IF o.kind = "raise" THEN Append(warn, [Algorithm |-> algorithm, exc |-> o.exc])
    ELSE warn

\* a loop that stops at the first failure
loop_next_abort(i, o) == IF o.kind = "raise" THEN Len(Algorithms) + 1 ELSE i + 1

\* the for loop moves to the next algorithm whatever the outcome
loop_next(i, o) == i + 1

\* one iteration of the loop: try run_algorithm, append or warn
loop_body(acc, algorithm, o, time) ==
    [results  |-> append_result(acc.results, algorithm, o, time),
     warnings |-> append_warning(acc.warnings, algorithm, o),
     hung     |-> o.kind = "hang"]

\* the loop from position i on: every final (results, warnings) it can reach.
\* runs[i] holds the possible outcomes of the call
\* run_algorithm(G, start_node, end_node, algorithms[i]) (the graph does not
\* change during the loop); a call that never returns leaves the loop hanging
RECURSIVE compare_loop(_, _, _)
compare_loop(runs, i, acc) ==
    IF acc.hung \/ i > Len(Algorithms) THEN {acc}
    ELSE UNION {compare_loop(runs, loop_next(i, x[1]),
                             loop_body(acc, Algorithms[i], x[1], x[2])) :
                   x \in runs[i] \X (Times)}

\* compare_all_algorithms(G, start_node, end_node)
compare_all_algorithms(g, source, target) ==
    LET runs == [i \in 1..Len(Algorithms) |->
                    run_algorithm(g, source, target, Algorithms[i])]
    IN compare_loop(runs, 1, [results |-> <<>>, warnings |-> <<>>, hung |-> FALSE])

\* DataFrame column .idxmin(): the first position holding the least value
idxmin_time(res) ==
    MinOf({i \in 1..Len(res) : \A j \in 1..Len(res) : res[i].Time <= res[j].Time})

idxmin_distance(res) ==
    MinOf({i \in 1..Len(res) : \A j \in 1..Len(res) : res[i].Distance <= res[j].Distance})

----------------------------------------------------------------------------
(* The Find Path handler *)

NothingShown == [kind |-> "none", exc |-> "", fastest |-> "", shortest |-> "", route |-> <<>>]

\* the single-algorithm branch: metrics and plot, or st.error on an exception
show_single(o) ==
    IF o.kind = "return"
    THEN [kind |-> "metrics", exc |-> "", fastest |-> "", shortest |-> "", route |-> o.path]
    ELSE [kind |-> "error", exc |-> o.exc, fastest |-> "", shortest |-> "", route |-> <<>>]

\* the compare-all branch: `if results:` table, fastest, shortest and plot
show_comparison(res) ==
    IF res # <<>>
    THEN [kind |-> "comparison", exc |-> "",
          fastest |-> res[idxmin_time(res)].Algorithm,
          shortest |-> res[idxmin_distance(res)].Algorithm,
          route |-> res[idxmin_distance(res)].Path]
    ELSE [kind |-> "empty", exc |-> "", fastest |-> "", shortest |-> "", route |-> <<>>]

----------------------------------------------------------------------------
(* Initial states: a loaded graph and a pair of node keys *)

Pairs == {e \in FamilyNodes \X FamilyNodes : e[1] # e[2]}

\* the length sequences of at most n parallel edges
Bundles(lengths, n) == UNION {[1..k -> lengths] : k \in 1..n}

RECURSIVE EdgeCount(_, _)
EdgeCount(adj, D) ==
    IF D = {} THEN 0
    ELSE LET e == CHOOSE x \in D : TRUE IN Len(adj[e]) + EdgeCount(adj, D \ {e})

\* the multigraphs on FamilyNodes with at most MaxEdges edges
Graphs(lengths) ==
    {[nodes |-> FamilyNodes, adj |-> a] :
        a \in UNION {{f \in [E -> Bundles(lengths, MaxEdges + 1 - Cardinality(E))] :
                            EdgeCount(f, E) <= MaxEdges} :
                        E \in {S \in SUBSET Pairs : Cardinality(S) <= MaxEdges}}}

\* the scenario A->B (5), A->C (2), C->B (2), B->D (1)
ScenarioGraph ==
    [nodes |-> {1, 2, 3, 4},
     adj |-> (<<1, 2>> :> <<5>>) @@ (<<1, 3>> :> <<2>>) @@ (<<3, 2>> :> <<2>>)
                @@ (<<2, 4>> :> <<1>>)]

InitOn(graphs) ==
    /\ G \in graphs
    /\ start_node \in G.nodes \cup AbsentNodes
    /\ end_node \in G.nodes \cup AbsentNodes
    /\ pc = "idle"
    /\ ret = NoCall
    /\ results = <<>>
    /\ warnings = <<>>
    /\ shown = NothingShown

\* road networks: non-negative lengths
Init == InitOn(Graphs(RoadLengths) \cup {ScenarioGraph})

\* graphs with arbitrary edge lengths
InitAny == InitOn(Graphs(AnyLengths) \cup {ScenarioGraph})

----------------------------------------------------------------------------
(* Actions *)

\* "Single Algorithm": run_algorithm is called once and its result shown
RunSingle ==
    /\ pc = "idle"
    /\ \E algorithm \in AlgorithmNames :
         \E o \in run_algorithm(G, start_node, end_node, algorithm), time \in Times :
            /\ ret' = CallRecord(algorithm, o, time)
            /\ pc' = IF o.kind = "hang" THEN "hung" ELSE "single_done"
            /\ shown' = IF o.kind = "hang" THEN shown ELSE show_single(o)
    /\ UNCHANGED <<G, start_node, end_node, results, warnings>>

\* "Compare All Algorithms": compare_all_algorithms runs and the handler
\* shows the comparison of what it returned
CompareAll ==
    /\ pc = "idle"
    /\ \E r \in compare_all_algorithms(G, start_node, end_node) :
            /\ warnings' = r.warnings
            /\ results' = IF r.hung THEN results ELSE r.results
            /\ pc' = IF r.hung THEN "hung" ELSE "compare_done"
            /\ shown' = IF r.hung THEN shown ELSE show_comparison(r.results)
    /\ UNCHANGED <<G, start_node, end_node, ret>>

Next == RunSingle \/ CompareAll

Spec == Init /\ [][Next]_vars

SpecAny == InitAny /\ [][Next]_vars

----------------------------------------------------------------------------
(* Properties *)

Known == Range(Algorithms)

InGraph == start_node \in G.nodes /\ end_node \in G.nodes

Reachable == InGraph /\ SimplePaths(G, start_node, end_node) # {}

ResultNames == {results[j].Algorithm : j \in 1..Len(results)}

WarningNames == {warnings[j].Algorithm : j \in 1..Len(warnings)}

Entry(name) == results[CHOOSE j \in 1..Len(results) : results[j].Algorithm = name]

Pos(name) == CHOOSE i \in 1..Len(Algorithms) : Algorithms[i] = name

\* the sums of one parallel edge per consecutive pair of the path
RECURSIVE EdgeSums(_, _)
EdgeSums(g, path) ==
    IF Len(path) <= 1 THEN {0}
    ELSE {x + y : x \in Range(g.adj[<<path[1], path[2]>>]), y \in EdgeSums(g, Tail(path))}

\* the sum of the minimum-length parallel edge of each consecutive pair
MinEdgeSum(g, path) == MinOf(EdgeSums(g, path))

\* C1: on a graph with non-negative lengths and a reachable target, the
\* distances reported for Dijkstra, A* and Bellman-Ford are equal, and the
\* distance reported for BFS is at least that common distance.
C1_OptimalityAgreement ==
    (pc = "compare_done" /\ NonNegative(G) /\ Reachable) =>
        /\ ResultNames = Known
        /\ Entry("A*").Distance = Entry("Dijkstra").Distance
        /\ Entry("Bellman-Ford").Distance = Entry("Dijkstra").Distance
        /\ Entry("BFS").Distance >= Entry("Dijkstra").Distance

\* a comparison in which the fewest-hops path is strictly longer
C1_Witness ==
    /\ pc = "compare_done" /\ NonNegative(G) /\ Reachable
    /\ ResultNames = Known
    /\ Entry("BFS").Distance > Entry("A*").Distance
    /\ Entry("A*").Nodes > Entry("BFS").Nodes

\* C2: whichever algorithm produced the path, the distance run_algorithm
\* reports is the sum, over the consecutive pairs of the path, of the
\* minimum-length edge among the parallel edges joining the pair.
C2_MinEdgeDistance ==
    (pc = "single_done" /\ ret.kind = "return") =>
        ret.path_length = MinEdgeSum(G, ret.path)

\* C3: when compare_all_algorithms returns, each of the four algorithms was
\* attempted exactly once (it has an entry or a warning, never both), the
\* entries and the warnings follow the order Dijkstra, A*, BFS, Bellman-Ford,
\* and fastest / shortest are entries of least Time / Distance among the
\* succeeded ones (none is derived when there is no entry).
C3_PartialFailureTolerant ==
    pc = "compare_done" =>
        /\ Len(results) + Len(warnings) = Len(Algorithms)
        /\ ResultNames \cup WarningNames = Known
        /\ ResultNames \cap WarningNames = {}
        /\ \A j, k \in 1..Len(results) :
              j < k => Pos(results[j].Algorithm) < Pos(results[k].Algorithm)
        /\ \A j, k \in 1..Len(warnings) :
              j < k => Pos(warnings[j].Algorithm) < Pos(warnings[k].Algorithm)
        /\ IF results = <<>>
           THEN shown.kind = "empty" /\ shown.fastest = "" /\ shown.shortest = ""
           ELSE /\ shown.kind = "comparison"
                /\ shown.fastest \in ResultNames
                /\ shown.shortest \in ResultNames
                /\ \A j \in 1..Len(results) :
                      /\ Entry(shown.fastest).Time <= results[j].Time
                      /\ Entry(shown.shortest).Distance <= results[j].Distance

\* a comparison in which the first algorithm failed, later ones succeeded,
\* and the fastest entry is not the first one
C3_Witness ==
    /\ pc = "compare_done"
    /\ "Dijkstra" \in WarningNames
    /\ "Bellman-Ford" \in WarningNames
    /\ ResultNames = {"A*", "BFS"}
    /\ shown.fastest = "BFS"

\* C4: when the source or the target is absent from the graph the error
\* reaches the caller of run_algorithm and of compare_all_algorithms: the
\* call does not return normally and no per-algorithm warning records it.
C4_MalformedGraphPropagates ==
    (~InGraph) =>
        /\ (pc = "single_done" /\ ret.algorithm \in Known) => ret.kind = "raise"
        /\ pc # "compare_done"
        /\ warnings = <<>>

\* C5 as stated: when a negative cycle is reachable from the source,
\* Bellman-Ford returns no path and fails with the negative-cycle error.
C5_NegativeCycleAlways ==
    (pc = "single_done" /\ ret.algorithm = "Bellman-Ford"
        /\ start_node \in G.nodes /\ NegativeCycleReachable(G, start_node)) =>
        (ret.kind = "raise" /\ ret.exc = "NetworkXUnbounded")

\* C5 (amended): when a negative cycle is reachable from the source and the
\* target is another node, Bellman-Ford returns no path and fails with the
\* negative-cycle error, which is not the no-path error.
C5_NegativeCycleDetected ==
    (pc = "single_done" /\ ret.algorithm = "Bellman-Ford"
        /\ start_node \in G.nodes /\ NegativeCycleReachable(G, start_node)
        /\ start_node # end_node) =>
        /\ ret.kind = "raise"
        /\ ret.exc = "NetworkXUnbounded"
        /\ ret.exc # "NetworkXNoPath"
        /\ ret.path = <<>>
        /\ shown.kind = "error"

\* Bellman-Ford fails on a negative cycle although the target is reachable
C5_Witness ==
    /\ pc = "single_done" /\ ret.algorithm = "Bellman-Ford"
    /\ Reachable /\ start_node # end_node
    /\ NegativeCycleReachable(G, start_node)
    /\ ret.exc = "NetworkXUnbounded"

C7_TrivialPath ==
    (InGraph /\ start_node = end_node) =>
        /\ (pc = "single_done" /\ ret.algorithm \in Known) =>
              (ret.kind = "return" /\ ret.path = <<start_node>> /\ ret.path_length = 0)
        /\ pc = "compare_done" =>
              /\ ResultNames = Known
              /\ \A j \in 1..Len(results) :
                    /\ results[j].Path = <<start_node>>
                    /\ results[j].Distance = 0
                    /\ results[j].Nodes = 1

\* all four algorithms ran from a node to itself on a cycle through it
C7_Witness ==
    /\ pc = "compare_done" /\ InGraph /\ start_node = end_node
    /\ \E v \in Succ(G, start_node) : HasEdge(G, v, start_node)
    /\ Len(results) = Len(Algorithms)

\* C8: the path BFS returns has the fewest edges among the paths from source
\* to target, and the distance reported for it is a sum of lengths of edges
\* along it, not its hop count; on the scenario graph BFS from A to D gives
\* A,B,D with distance 6 and the weighted algorithms A,C,B,D with distance 5.
C8_BfsFewestHops ==
    (pc = "single_done" /\ ret.kind = "return") =>
        /\ ret.algorithm = "BFS" =>
              /\ ret.path \in SimplePaths(G, start_node, end_node)
              /\ \A p \in SimplePaths(G, start_node, end_node) : Len(ret.path) <= Len(p)
              /\ ret.path_length \in EdgeSums(G, ret.path)
        /\ (G = ScenarioGraph /\ start_node = 1 /\ end_node = 4) =>
              IF ret.algorithm = "BFS"
              THEN ret.path = <<1, 2, 4>> /\ ret.path_length = 6
              ELSE ret.path = <<1, 3, 2, 4>> /\ ret.path_length = 5

\* BFS ran on the scenario graph from A to D
C8_Witness ==
    /\ pc = "single_done" /\ ret.algorithm = "BFS" /\ ret.kind = "return"
    /\ G = ScenarioGraph /\ start_node = 1 /\ end_node = 4
    /\ ret.path_length > Len(ret.path) - 1

\* C9: run_algorithm with a name other than the four known ones fails with
\* the invalid-argument error before any search is called, whatever the
\* graph and the node pair; the error is not the no-path error.
C9_UnknownAlgorithm ==
    (pc = "single_done" /\ ret.algorithm \notin Known) =>
        /\ ret.kind = "raise"
        /\ ret.exc = "ValueError"
        /\ ret.exc # "NetworkXNoPath"
        /\ ~ret.searched
        /\ shown.kind = "error"

\* an unknown name on a pair that has no path
C9_Witness ==
    /\ pc = "single_done" /\ ret.algorithm = "DFS"
    /\ InGraph /\ ~Reachable
    /\ ret.exc = "ValueError"

====
